---- MODULE Spec2Model ----
(***************************************************************************)
(* MonitorModel (hwmonitor/monitors/monitor_model.py): a registry of       *)
(* monitor descriptors keyed by device name, with Qt-style signals         *)
(* (item_added, item_removed, model_reset) and geometric queries.          *)
(*                                                                         *)
(* The private dict self.__monitors is a sequence of (key, value) entries  *)
(* in insertion order, which is the iteration order of a Python dict.      *)
(* Python objects carry their type in a "type" field so that attribute     *)
(* access on the wrong kind of object can fail as it does in Python.       *)
(* Monitor descriptors are immutable values here: nothing in the registry  *)
(* writes to a descriptor.                                                 *)
(***************************************************************************)
EXTENDS Integers, Sequences, FiniteSets, Bags, TLC

\* ---------------------------------------------------------------- bounds
NumNames == 3
MaxMonitors == 3
MaxFilterMonitors == 2
NumFilterNames == 2
MaxGens == 2

\* ------------------------------------------------------- Python objects
None == [type |-> "NoneType"]
PyStr(s) == [type |-> "str", value |-> s]
PyInt(n) == [type |-> "int", value |-> n]
PyTuple(items) == [type |-> "tuple", items |-> items]
PyList(items) == [type |-> "list", items |-> items]

Monitor(name, x, y, w, h, p) ==
    [type |-> "Monitor", device_name |-> name,
     position_x |-> x, position_y |-> y,
     screen_width |-> w, screen_height |-> h, primary |-> p]

\* The attributes an object of each type answers to; anything else raises
\* AttributeError.
HasAttr(obj, attr) ==
    /\ obj.type = "Monitor"
    /\ attr \in {"device_name", "position_x", "position_y",
                 "screen_width", "screen_height", "primary"}

\* ----------------------------------------------------------- the inputs
DeviceName(i) == "DISPLAY" \o ToString(i)
NamesUpTo(n) == {DeviceName(i) : i \in 1..n}
DeviceNames == NamesUpTo(NumNames)

\* Descriptors the device enumeration may supply under each name:
\* A = [0,0,100,100] primary, B = [100,0,100,100], C = [0,50,100,100] primary.
MonitorA(name) == Monitor(name, 0, 0, 100, 100, TRUE)
MonitorB(name) == Monitor(name, 100, 0, 100, 100, FALSE)
MonitorC(name) == Monitor(name, 0, 50, 100, 100, TRUE)
Preset(k, name) ==
    CASE k % 3 = 1 -> MonitorA(name)
      [] k % 3 = 2 -> MonitorB(name)
      [] k % 3 = 0 -> MonitorC(name)
\* Two descriptors per name, so that a name can come with different
\* descriptors and different names with the same position.
Monitors ==
    UNION {{Preset(i, DeviceName(i)), Preset(i + 1, DeviceName(i))} : i \in 1..NumNames}
MonitorsNamed(names) == {monitor \in Monitors : monitor.device_name \in names}

\* Points asked of get_from_position: inside, on every edge, outside.
Xs == {-1, 50, 100, 150, 200, 250}
Ys == {50, 100, 150, 151}

\* Values a caller passes as get's default.
Defaults == {None, PyStr("fallback")}

\* Predicates a caller passes to filter.
Operations == {"primary", "position_x == 0"}

\* ----------------------------------------------------------------- dict
DictValues(d) == [i \in 1..Len(d) |-> d[i].value]
DictContains(d, k) == \E i \in 1..Len(d) : d[i].key = k
DictIndex(d, k) == CHOOSE i \in 1..Len(d) : d[i].key = k
DictGetItem(d, k) == d[DictIndex(d, k)].value
\* d[k] = v: a new key goes to the end, an existing key keeps its place.
DictSetItem(d, k, v) ==
    IF DictContains(d, k)
    THEN [i \in 1..Len(d) |-> IF d[i].key = k THEN [key |-> k, value |-> v] ELSE d[i]]
    ELSE Append(d, [key |-> k, value |-> v])
DictDelItem(d, k) ==
    LET at == DictIndex(d, k)
    IN  [i \in 1..(Len(d) - 1) |-> IF i < at THEN d[i] ELSE d[i + 1]]
\* Iterating a dict itself yields its keys, which are str objects.
DictIter(d) == [i \in 1..Len(d) |-> PyStr(d[i].key)]

\* ---------------------------------------------------------------- signals
\* A signal's emit runs the connected slots at once, on the caller's stack.
\* The record keeps what a slot is handed and the registry it can observe.
Emit(signal, args, monitors_now) ==
    [signal |-> signal, args |-> args, at |-> monitors_now]

\* What a call did: the dict it left, the exception it raised ("None" when it
\* returned), the value it returned and the signals it emitted, in order.
Outcome(d, raised, ret, emitted) ==
    [monitors |-> d, raised |-> raised, ret |-> ret, emitted |-> emitted]

\* --------------------------------------------------------------- mutators
add_overwrite(d, monitor) ==
    LET d1 == DictSetItem(d, monitor.device_name, monitor)
    IN  Outcome(d1, "None", None,
                <<Emit("item_added", <<PyStr(monitor.device_name), monitor>>, d1)>>)

add_emit_first(d, monitor) ==
    IF DictContains(d, monitor.device_name)
    THEN Outcome(d, "ValueError", None, <<>>)
    ELSE LET d1 == DictSetItem(d, monitor.device_name, monitor)
         IN  Outcome(d1, "None", None,
                     <<Emit("item_added", <<PyStr(monitor.device_name), monitor>>, d)>>)

add(d, monitor) ==
    IF DictContains(d, monitor.device_name)
    THEN Outcome(d, "ValueError", None, <<>>)
    ELSE LET d1 == DictSetItem(d, monitor.device_name, monitor)
         IN  Outcome(d1, "None", None,
                     <<Emit("item_added", <<PyStr(monitor.device_name), monitor>>, d1)>>)

pop_first(d, device_name) ==
    IF d = <<>>
    THEN Outcome(d, "KeyError", None, <<>>)
    ELSE LET monitor == d[1].value
             d1 == Tail(d)
         IN  Outcome(d1, "None", monitor,
                     <<Emit("item_removed", <<PyStr(device_name), monitor>>, d1)>>)

pop_silent_when_absent(d, device_name) ==
    IF ~DictContains(d, device_name)
    THEN Outcome(d, "None", None, <<Emit("item_removed", <<PyStr(device_name), None>>, d)>>)
    ELSE LET monitor == DictGetItem(d, device_name)
             d1 == DictDelItem(d, device_name)
         IN  Outcome(d1, "None", monitor,
                     <<Emit("item_removed", <<PyStr(device_name), monitor>>, d1)>>)

pop(d, device_name) ==
    IF ~DictContains(d, device_name)
    THEN Outcome(d, "KeyError", None, <<>>)
    ELSE LET monitor == DictGetItem(d, device_name)
             d1 == DictDelItem(d, device_name)
         IN  Outcome(d1, "None", monitor,
                     <<Emit("item_removed", <<PyStr(device_name), monitor>>, d1)>>)

\* remove calls pop and drops what it returns; an exception passes through.
remove(d, monitor) ==
    LET r == pop(d, monitor.device_name)
    IN  Outcome(r.monitors, r.raised, None, r.emitted)

get_no_default(d, device_name, default) ==
    IF DictContains(d, device_name)
    THEN Outcome(d, "None", DictGetItem(d, device_name), <<>>)
    ELSE Outcome(d, "None", None, <<>>)

get(d, device_name, default) ==
    IF DictContains(d, device_name)
    THEN Outcome(d, "None", DictGetItem(d, device_name), <<>>)
    ELSE Outcome(d, "None", default, <<>>)

reset_per_item(d) ==
    Outcome(<<>>, "None", None,
            [i \in 1..Len(d) |->
                Emit("item_removed", <<PyStr(d[i].key), d[i].value>>, SubSeq(d, i + 1, Len(d)))]
            \o <<Emit("model_reset", <<>>, <<>>)>>)

reset(d) ==
    Outcome(<<>>, "None", None, <<Emit("model_reset", <<>>, <<>>)>>)

\* ---------------------------------------------------------------- queries
\* Tuples compare lexicographically, as the sort key (position_x, position_y).
TupleLess(a, b) == a[1] < b[1] \/ (a[1] = b[1] /\ a[2] < b[2])

\* sorted(iterable, key=...) computes every element's key once, then sorts
\* the (key, item) entries by key.  One step of the insertion sort list.sort
\* runs on a short list: the entry goes before the first entry whose key is
\* greater, so after every entry whose key is less or equal.
InsertSorted(run, entry) ==
    LET greater == {i \in 1..Len(run) : TupleLess(entry.key, run[i].key)}
        at == IF greater = {} THEN Len(run) + 1
              ELSE CHOOSE i \in greater : \A j \in greater : i <= j
    IN  SubSeq(run, 1, at - 1) \o <<entry>> \o SubSeq(run, at, Len(run))

sorted(values, keys) ==
    LET run[n \in 0..Len(values)] ==
            IF n = 0 THEN <<>>
            ELSE InsertSorted(run[n - 1], [key |-> keys[n], item |-> values[n]])
    IN  [i \in 1..Len(values) |-> run[Len(values)][i].item]

get_monitor_order_by_y(d) ==
    LET values == DictValues(d)
    IN  Outcome(d, "None",
                PyList(sorted(values, [i \in 1..Len(values) |->
                                        <<values[i].position_y, values[i].position_x>>])),
                <<>>)

get_monitor_order(d) ==
    LET values == DictValues(d)
    IN  Outcome(d, "None",
                PyList(sorted(values, [i \in 1..Len(values) |->
                                        <<values[i].position_x, values[i].position_y>>])),
                <<>>)

get_from_position_exclusive(d, x, y) ==
    LET values == DictValues(d)
        scan[i \in 1..(Len(values) + 1)] ==
            IF i > Len(values)
            THEN Outcome(d, "LookupError", None, <<>>)
            ELSE LET monitor == values[i]
                 IN  IF /\ monitor.position_x <= x
                        /\ x < monitor.position_x + monitor.screen_width
                        /\ monitor.position_y <= y
                        /\ y < monitor.position_y + monitor.screen_height
                     THEN Outcome(d, "None", monitor, <<>>)
                     ELSE scan[i + 1]
    IN  scan[1]

get_from_position(d, x, y) ==
    LET values == DictValues(d)
        scan[i \in 1..(Len(values) + 1)] ==
            IF i > Len(values)
            THEN Outcome(d, "LookupError", None, <<>>)
            ELSE LET monitor == values[i]
                 IN  IF /\ monitor.position_x <= x
                        /\ x <= monitor.position_x + monitor.screen_width
                        /\ monitor.position_y <= y
                        /\ y <= monitor.position_y + monitor.screen_height
                     THEN Outcome(d, "None", monitor, <<>>)
                     ELSE scan[i + 1]
    IN  scan[1]

min(a, b) == IF b < a THEN b ELSE a
max(a, b) == IF b > a THEN b ELSE a

\* The loop body of get_vscreen_size on one element of the iteration; the
\* first attribute read raises when the element has no such attribute.
VscreenStep(acc, monitor) ==
    IF acc.raised # "None"
    THEN acc
    ELSE IF ~(/\ HasAttr(monitor, "position_x") /\ HasAttr(monitor, "screen_width")
              /\ HasAttr(monitor, "position_y") /\ HasAttr(monitor, "screen_height"))
    THEN [acc EXCEPT !.raised = "AttributeError"]
    ELSE [raised |-> "None",
          min_x |-> min(acc.min_x, monitor.position_x),
          max_x |-> max(acc.max_x, monitor.position_x + monitor.screen_width),
          min_y |-> min(acc.min_y, monitor.position_y),
          max_y |-> max(acc.max_y, monitor.position_y + monitor.screen_height)]

VscreenLoop(iterable) ==
    LET acc[n \in 0..Len(iterable)] ==
            IF n = 0
            THEN [raised |-> "None", min_x |-> 0, max_x |-> 0, min_y |-> 0, max_y |-> 0]
            ELSE VscreenStep(acc[n - 1], iterable[n])
        end == acc[Len(iterable)]
    IN  IF end.raised # "None"
        THEN [raised |-> end.raised, ret |-> None]
        ELSE [raised |-> "None",
              ret |-> PyTuple(<<PyInt(end.max_x - end.min_x), PyInt(end.max_y - end.min_y)>>)]

get_vscreen_size_over_values(d) ==
    LET r == VscreenLoop(DictValues(d))
    IN  Outcome(d, r.raised, r.ret, <<>>)

\* "for monitor in self.__monitors" iterates the dict, that is, its keys.
get_vscreen_size(d) ==
    LET r == VscreenLoop(DictIter(d))
    IN  Outcome(d, r.raised, r.ret, <<>>)

\* ------------------------------------------------------------- generators
\* The predicates callers pass; "primary" is get_primary_monitor's lambda.
ApplyOperation(operation, monitor) ==
    CASE operation = "primary" -> monitor.primary
      [] operation = "position_x == 0" -> monitor.position_x = 0

\* Calling a generator function runs none of its body: the generator object
\* holds the arguments (self, operation) until the first next().  self is a
\* reference to the registry (live); empty_at_call only records, for the
\* properties below, whether the registry was empty at the call.
filter_snapshot(d, operation) ==
    [type |-> "generator", operation |-> operation, live |-> FALSE,
     captured |-> DictValues(d), empty_at_call |-> (d = <<>>)]

filter(d, operation) ==
    [type |-> "generator", operation |-> operation, live |-> TRUE,
     captured |-> <<>>, empty_at_call |-> (d = <<>>)]

get_primary_monitor(d) == filter(d, "primary")

\* Running the generator to exhaustion (list(gen), a for loop): the body of
\* filter over the dict as it is now.
GeneratorRun(gen, d) ==
    LET values == IF gen.live THEN DictValues(d) ELSE gen.captured
        out[n \in 0..Len(values)] ==
            IF n = 0 THEN <<>>
            ELSE IF ApplyOperation(gen.operation, values[n])
                 THEN Append(out[n - 1], values[n])
                 ELSE out[n - 1]
    IN  Outcome(d, "None", PyList(out[Len(values)]), <<>>)

\* --------------------------------------------------------------- observer
\* A slot connected to the three signals that keeps a replica of the
\* registry as a set of (key, value) entries.
ObserverSlot(rep, note) ==
    CASE note.signal = "item_added" ->
            {e \in rep : e.key # note.args[1].value}
                \cup {[key |-> note.args[1].value, value |-> note.args[2]]}
      [] note.signal = "item_removed" ->
            {e \in rep : e.key # note.args[1].value}
      [] note.signal = "model_reset" -> {}

\* The replica after each of a call's dispatches, in order.
Dispatch(rep, emitted) ==
    LET after[n \in 0..Len(emitted)] ==
            IF n = 0 THEN rep ELSE ObserverSlot(after[n - 1], emitted[n])
    IN  [n \in 1..Len(emitted) |-> after[n]]

DictItems(d) == {d[i] : i \in 1..Len(d)}

\* ------------------------------------------------------------------ state
VARIABLES
    monitors,   \* self.__monitors
    last,       \* the latest call: its arguments, outcome and dispatches
    gens,       \* the bag of generators returned by filter and not yet run
    replica,    \* the observer's replica
    rt          \* position of the add/get/pop/get client

vars == <<monitors, last, gens, replica, rt>>

Call(op, args, before, r, rep) ==
    [op |-> op, args |-> args, before |-> before,
     raised |-> r.raised, ret |-> r.ret, emitted |-> r.emitted,
     replicas |-> Dispatch(rep, r.emitted)]

Idle == [pc |-> "idle", d |-> None]

Init ==
    /\ monitors = <<>>
    /\ last = Call("__init__", <<>>, <<>>, Outcome(<<>>, "None", None, <<>>), {})
    /\ gens = EmptyBag
    /\ replica = {}
    /\ rt = Idle

\* A call into the registry: the dict it leaves, its record, and the replica
\* after the slots have run.
Do(op, args, r) ==
    LET c == Call(op, args, monitors, r, replica)
    IN  /\ monitors' = r.monitors
        /\ last' = c
        /\ replica' = IF c.replicas = <<>> THEN replica ELSE c.replicas[Len(c.replicas)]

AddCall(cap, names) ==
    \E monitor \in MonitorsNamed(names) :
        LET r == add(monitors, monitor)
        IN  /\ Len(r.monitors) <= cap
            /\ Do("add", <<monitor>>, r)
            /\ UNCHANGED <<gens, rt>>

RemoveCall(names) ==
    \E monitor \in MonitorsNamed(names) :
        /\ Do("remove", <<monitor>>, remove(monitors, monitor))
        /\ UNCHANGED <<gens, rt>>

PopCall(names) ==
    \E device_name \in names :
        /\ Do("pop", <<PyStr(device_name)>>, pop(monitors, device_name))
        /\ UNCHANGED <<gens, rt>>

ResetCall ==
    /\ Do("reset", <<>>, reset(monitors))
    /\ UNCHANGED <<gens, rt>>

GetCall ==
    \E device_name \in DeviceNames, default \in Defaults :
        /\ Do("get", <<PyStr(device_name), default>>, get(monitors, device_name, default))
        /\ UNCHANGED <<gens, rt>>

GetMonitorOrderCall ==
    /\ Do("get_monitor_order", <<>>, get_monitor_order(monitors))
    /\ UNCHANGED <<gens, rt>>

GetFromPositionCall ==
    \E x \in Xs, y \in Ys :
        /\ Do("get_from_position", <<PyInt(x), PyInt(y)>>, get_from_position(monitors, x, y))
        /\ UNCHANGED <<gens, rt>>

GetVscreenSizeCall ==
    /\ Do("get_vscreen_size", <<>>, get_vscreen_size(monitors))
    /\ UNCHANGED <<gens, rt>>

\* filter and get_primary_monitor hand back a generator; the caller keeps it.
FilterCall ==
    \E operation \in Operations :
        LET gen == filter(monitors, operation)
        IN  /\ BagCardinality(gens) < MaxGens
            /\ Do("filter", <<PyStr(operation)>>, Outcome(monitors, "None", gen, <<>>))
            /\ gens' = gens (+) SetToBag({gen})
            /\ UNCHANGED rt

GetPrimaryMonitorCall ==
    LET gen == get_primary_monitor(monitors)
    IN  /\ BagCardinality(gens) < MaxGens
        /\ Do("get_primary_monitor", <<>>, Outcome(monitors, "None", gen, <<>>))
        /\ gens' = gens (+) SetToBag({gen})
        /\ UNCHANGED rt

\* The caller runs one of the generators it holds to exhaustion.
TraverseCall ==
    \E gen \in BagToSet(gens) :
        /\ Do("list", <<gen>>, GeneratorRun(gen, monitors))
        /\ gens' = gens (-) SetToBag({gen})
        /\ UNCHANGED rt

\* A client that adds a descriptor under a free name, looks it up, pops it
\* and looks it up again, with other calls before and after.
ClientFree ==
    /\ rt.pc = "idle"
    /\ \/ AddCall(MaxMonitors, DeviceNames)
       \/ RemoveCall(DeviceNames)
       \/ PopCall(DeviceNames)
       \/ ResetCall
       \/ GetCall

ClientAdd ==
    \E monitor \in Monitors :
        /\ rt.pc = "idle"
        /\ ~DictContains(monitors, monitor.device_name)
        /\ Len(monitors) < MaxMonitors
        /\ Do("add", <<monitor>>, add(monitors, monitor))
        /\ rt' = [pc |-> "added", d |-> monitor]
        /\ UNCHANGED gens

ClientGet ==
    /\ rt.pc = "added"
    /\ Do("get", <<PyStr(rt.d.device_name), None>>, get(monitors, rt.d.device_name, None))
    /\ rt' = [rt EXCEPT !.pc = "got"]
    /\ UNCHANGED gens

ClientPop ==
    /\ rt.pc = "got"
    /\ Do("pop", <<PyStr(rt.d.device_name)>>, pop(monitors, rt.d.device_name))
    /\ rt' = [rt EXCEPT !.pc = "popped"]
    /\ UNCHANGED gens

\* Calls after the pop that do not add the name again.
ClientOther ==
    /\ rt.pc = "popped"
    /\ \/ AddCall(MaxMonitors, DeviceNames)
       \/ PopCall(DeviceNames)
       \/ ResetCall
    /\ last'.op = "add" => last'.args[1].device_name # rt.d.device_name

ClientGetAfter ==
    \E default \in Defaults :
        /\ rt.pc = "popped"
        /\ Do("get", <<PyStr(rt.d.device_name), default>>, get(monitors, rt.d.device_name, default))
        /\ rt' = Idle
        /\ UNCHANGED gens

Next ==
    \/ AddCall(MaxMonitors, DeviceNames)
    \/ RemoveCall(DeviceNames)
    \/ PopCall(DeviceNames)
    \/ ResetCall
    \/ GetCall
    \/ GetMonitorOrderCall
    \/ GetFromPositionCall
    \/ GetVscreenSizeCall

Spec == Init /\ [][Next]_vars

NextFilter ==
    \/ AddCall(MaxFilterMonitors, NamesUpTo(NumFilterNames))
    \/ RemoveCall(NamesUpTo(NumFilterNames))
    \/ PopCall(NamesUpTo(NumFilterNames))
    \/ ResetCall
    \/ FilterCall
    \/ GetPrimaryMonitorCall
    \/ TraverseCall

SpecFilter == Init /\ [][NextFilter]_vars

NextRoundTrip ==
    \/ ClientFree
    \/ ClientAdd
    \/ ClientGet
    \/ ClientPop
    \/ ClientOther
    \/ ClientGetAfter

SpecRoundTrip == Init /\ [][NextRoundTrip]_vars

\* ============================================================ properties
Mutators == {"add", "remove", "pop", "reset"}
KeysOf(d) == {d[i].key : i \in 1..Len(d)}
StoredUnder(d, k) == (CHOOSE e \in DictItems(d) : e.key = k).value
Without(d, k) == SelectSeq(d, LAMBDA e : e.key # k)
Returned == last.raised = "None"

\* C1: an add whose device_name is already a key fails (ValueError, the
\* spec's DuplicateKeyError), leaves the mapping as it was, so the entry the
\* first add stored is kept, and emits nothing.
C1_DuplicateAddFails ==
    (last.op = "add" /\ last.args[1].device_name \in KeysOf(last.before))
        => /\ last.raised = "ValueError"
           /\ monitors = last.before
           /\ last.emitted = <<>>

\* A second add under a stored name with a different descriptor was refused.
C1_Witness ==
    /\ last.op = "add"
    /\ last.args[1].device_name \in KeysOf(last.before)
    /\ StoredUnder(last.before, last.args[1].device_name) # last.args[1]
    /\ last.raised = "ValueError"

ChangedWithOneNotification ==
    /\ Returned
    /\ monitors # last.before
    /\ Len(last.emitted) = 1

FailedUntouched ==
    /\ ~Returned
    /\ monitors = last.before
    /\ last.emitted = <<>>

\* C2 as stated: every mutating call either changes the mapping and fires
\* exactly one notification, or fails with the mapping unchanged and no
\* notification.
C2_ChangeXorFail ==
    last.op \in Mutators => (ChangedWithOneNotification \/ FailedUntouched)

\* C2 amended: every mutating call either changes the mapping and fires
\* exactly one notification, or fails with the mapping unchanged and no
\* notification, or is a reset of an empty registry, which returns, leaves
\* the mapping empty and fires exactly one model_reset.
C2_ChangeXorFailOrEmptyReset ==
    last.op \in Mutators =>
        \/ ChangedWithOneNotification
        \/ FailedUntouched
        \/ /\ last.op = "reset"
           /\ last.before = <<>>
           /\ Returned
           /\ monitors = <<>>
           /\ Len(last.emitted) = 1
           /\ last.emitted[1].signal = "model_reset"

\* reset was called on an empty registry.
C2_Witness ==
    /\ last.op = "reset"
    /\ last.before = <<>>
    /\ Len(last.emitted) = 1

\* C3: remove(descriptor) and pop(device_name) act on the name: absent, the
\* call fails (KeyError, the spec's NotFoundError) with the mapping
\* unchanged and nothing emitted; present, exactly that entry goes, the
\* others keep their order, item_removed carries the name and the stored
\* descriptor, and pop returns the stored descriptor.
C3_RemoveByName ==
    last.op \in {"remove", "pop"} =>
        LET k == IF last.op = "remove" THEN last.args[1].device_name
                 ELSE last.args[1].value
        IN  IF k \notin KeysOf(last.before)
            THEN /\ last.raised = "KeyError"
                 /\ monitors = last.before
                 /\ last.emitted = <<>>
            ELSE LET stored == StoredUnder(last.before, k)
                 IN  /\ Returned
                     /\ monitors = Without(last.before, k)
                     /\ Len(monitors) = Len(last.before) - 1
                     /\ Len(last.emitted) = 1
                     /\ last.emitted[1].signal = "item_removed"
                     /\ last.emitted[1].args = <<PyStr(k), stored>>
                     /\ last.op = "pop" => last.ret = stored

\* remove was handed a descriptor that differs from the stored one of the
\* same name, and the stored one went out, with other entries left behind.
C3_Witness ==
    /\ last.op = "remove"
    /\ Returned
    /\ last.emitted[1].args[2] # last.args[1]
    /\ monitors # <<>>

\* C4: from a registry without d.device_name, add(d) succeeds, the get that
\* follows returns d, the pop that follows returns d, and a get after that
\* (other names may be added, popped or the registry reset in between)
\* returns the default it is given; no get fails or changes the mapping.
C4_RoundTrip ==
    [][ /\ (rt.pc = "idle" /\ rt'.pc = "added") =>
                (last'.raised = "None" /\ rt'.d = last'.args[1])
        /\ (rt.pc = "added" /\ rt'.pc = "got") =>
                (last'.raised = "None" /\ last'.ret = rt.d)
        /\ (rt.pc = "got" /\ rt'.pc = "popped") =>
                (last'.raised = "None" /\ last'.ret = rt.d)
        /\ (rt.pc = "popped" /\ rt'.pc = "idle") =>
                (last'.raised = "None" /\ last'.ret = last'.args[2])
        /\ last'.op = "get" =>
                (last'.raised = "None" /\ monitors' = monitors /\ last'.emitted = <<>>)
      ]_vars

\* The client's pop has returned the descriptor it added.
C4_Witness ==
    /\ rt.pc = "popped"
    /\ last.op = "pop"
    /\ last.ret = rt.d
    /\ last.before # <<[key |-> rt.d.device_name, value |-> rt.d]>>

\* C5: after reset, whatever the registry held, it is empty, and the call
\* emitted exactly one notification, a model_reset, and no item_removed.
C5_ResetOnce ==
    last.op = "reset" =>
        /\ Returned
        /\ Len(monitors) = 0
        /\ Len(last.emitted) = 1
        /\ last.emitted[1].signal = "model_reset"
        /\ \A i \in 1..Len(last.emitted) : last.emitted[i].signal # "item_removed"

\* reset was called on a registry of several entries.
C5_Witness ==
    /\ last.op = "reset"
    /\ Len(last.before) >= 2
    /\ monitors = <<>>

InRectangle(monitor, x, y) ==
    /\ monitor.position_x <= x
    /\ x <= monitor.position_x + monitor.screen_width
    /\ monitor.position_y <= y
    /\ y <= monitor.position_y + monitor.screen_height

\* C6: get_from_position(x, y) returns the earliest-inserted descriptor
\* whose rectangle, edges included, holds the point, and fails (LookupError,
\* the spec's OutOfBoundsError) exactly when none does; with A added before
\* B: (50,50) -> A, (150,50) -> B, (100,50) -> A, (250,50) fails.
C6_FirstContaining ==
    last.op = "get_from_position" =>
        LET x == last.args[1].value
            y == last.args[2].value
            hits == {i \in 1..Len(monitors) : InRectangle(monitors[i].value, x, y)}
            values == DictValues(monitors)
        IN  /\ monitors = last.before
            /\ last.raised \in {"None", "LookupError"}
            /\ (last.raised = "LookupError") <=> (hits = {})
            /\ hits # {} =>
                    \E i \in hits : /\ \A j \in hits : i <= j
                                    /\ last.ret = monitors[i].value
            /\ \A a, b \in DeviceNames :
                    (values = <<MonitorA(a), MonitorB(b)>> /\ y = 50) =>
                        /\ x = 50 => last.ret = MonitorA(a)
                        /\ x = 150 => last.ret = MonitorB(b)
                        /\ x = 100 => last.ret = MonitorA(a)
                        /\ x = 250 => last.raised = "LookupError"

\* The point on the edge A and B share was asked for, and A came back.
C6_Witness ==
    /\ last.op = "get_from_position"
    /\ Len(monitors) = 2
    /\ monitors[1].value = MonitorA(monitors[1].key)
    /\ monitors[2].value = MonitorB(monitors[2].key)
    /\ last.args = <<PyInt(100), PyInt(50)>>
    /\ last.ret = monitors[1].value

Position(monitor) == <<monitor.position_x, monitor.position_y>>
InsertionIndex(d, monitor) == CHOOSE i \in 1..Len(d) : d[i].value = monitor

\* C7: get_monitor_order returns every stored descriptor exactly once,
\* ascending by position_x, then position_y, descriptors at the same position
\* in insertion order; (0,0), (100,0), (0,50) come out (0,0), (0,50), (100,0).
C7_SortedStablePermutation ==
    last.op = "get_monitor_order" =>
        LET out == last.ret.items
            values == DictValues(monitors)
        IN  /\ Returned
            /\ monitors = last.before
            /\ Len(out) = Len(values)
            /\ \A i \in 1..Len(values) :
                    Cardinality({j \in 1..Len(out) : out[j] = values[i]}) = 1
            /\ \A i, j \in 1..Len(out) :
                    i < j =>
                        \/ out[i].position_x < out[j].position_x
                        \/ /\ out[i].position_x = out[j].position_x
                           /\ out[i].position_y < out[j].position_y
                        \/ /\ Position(out[i]) = Position(out[j])
                           /\ InsertionIndex(monitors, out[i]) < InsertionIndex(monitors, out[j])
            /\ \A a, b, c \in DeviceNames :
                    values = <<MonitorA(a), MonitorB(b), MonitorC(c)>> =>
                        out = <<MonitorA(a), MonitorC(c), MonitorB(b)>>

\* Monitors at (0,0), (100,0), (0,50), added in that order, were ordered.
C7_Witness ==
    /\ last.op = "get_monitor_order"
    /\ Len(monitors) = 3
    /\ <<Position(monitors[1].value), Position(monitors[2].value), Position(monitors[3].value)>>
            = << <<0, 0>>, <<100, 0>>, <<0, 50>> >>
    /\ <<Position(last.ret.items[1]), Position(last.ret.items[2]), Position(last.ret.items[3])>>
            = << <<0, 0>>, <<0, 50>>, <<100, 0>> >>

ZeroSize == PyTuple(<<PyInt(0), PyInt(0)>>)

C9_LiveFilter ==
    last.op = "list" =>
        LET gen == last.args[1]
            out == last.ret.items
            values == DictValues(monitors)
        IN  /\ Returned
            /\ monitors = last.before
            /\ \A j \in 1..Len(out) :
                    \E i \in 1..Len(values) : values[i] = out[j]
            /\ \A i \in 1..Len(values) :
                    Cardinality({j \in 1..Len(out) : out[j] = values[i]})
                        = IF ApplyOperation(gen.operation, values[i]) THEN 1 ELSE 0

\* A generator made while the registry was empty was run after two matching
\* monitors were added, while another generator was still held.
C9_Witness ==
    /\ last.op = "list"
    /\ last.args[1].empty_at_call
    /\ Len(last.ret.items) >= 2
    /\ gens # EmptyBag

\* C10: an observer applying the notifications to a replica that starts empty
\* has, at every dispatch and after every mutating call, failed or not, a
\* replica equal to the mapping; the registry a slot sees at a dispatch is
\* already the mutated one; the payload's descriptor carries the payload's key.
C10_ReplicaTracksMapping ==
    /\ replica = DictItems(monitors)
    /\ \A e \in DictItems(monitors) : e.value.device_name = e.key
    /\ Len(last.replicas) = Len(last.emitted)
    /\ \A i \in 1..Len(last.emitted) :
            LET note == last.emitted[i]
            IN  /\ last.replicas[i] = DictItems(note.at)
                /\ note.at = monitors
                /\ note.signal \in {"item_added", "item_removed"} =>
                        note.args[2].device_name = note.args[1].value

\* An entry was removed from a registry of several, and the replica followed.
C10_Witness ==
    /\ last.op \in {"remove", "pop"}
    /\ last.emitted # <<>>
    /\ replica # {}
    /\ replica = DictItems(monitors)
====
